---- MODULE Spec2Model ----
(***************************************************************************)
(* xvii: Roman numerals.  The encoder (RomanFormatter::fmt over the ladder  *)
(* VALUES), the decoder (RomanUnitIterator::next, Accumulator::push/value,  *)
(* to_digit, Roman::from_str) and the bounded value (Roman::new).           *)
(*                                                                         *)
(* Bytes are their ASCII codes.  An input string is kept as a sequence of   *)
(* runs [b |-> byte, n |-> how many times it repeats]; the string is the    *)
(* concatenation of the runs.  Option<T> is a sequence of length 0 (None)   *)
(* or 1 (Some).                                                             *)
(*                                                                         *)
(* Integer types: the accumulator and the units are i32 (unit.rs:11-12,     *)
(* 73), the running sum and the Roman value are u16 (roman.rs:23).  The     *)
(* fold's checked_add yields a u16: it is None exactly when the sum of the  *)
(* unit and the running total is not representable in u16.  An i32          *)
(* operation that overflows panics when the build checks overflow (debug)   *)
(* and wraps when it does not (release): both outcomes are modelled.        *)
(***************************************************************************)
EXTENDS Integers, Sequences, FiniteSets, TLC

VARIABLES
    pc,       \* where the call stands: "new", "fmt", "parse", "done", "panicked"
    op,       \* "format": new, format, parse back; "parse": parse a string
    n,        \* Roman::new's argument (u16)
    style,    \* RomanFormatter.style
    made,     \* what Roman::new returned: Option<Roman>
    current,  \* fmt's local `current`
    idx,      \* the entry of VALUES the for loop is at (1-based)
    out,      \* the bytes fmt has written
    input,    \* from_str's argument s
    bytes,    \* RomanUnitIterator.bytes: what is left of s
    acc,      \* RomanUnitIterator.acc: Option<Accumulator>
    sum,      \* try_fold's accumulator
    units,    \* the units the iterator has yielded, in order
    result,   \* what from_str (or a None of Roman::new) returned
    fault     \* "none", or how an i32 overflow ended: "panic", "wrapped"

vars == <<pc, op, n, style, made, current, idx, out,
          input, bytes, acc, sum, units, result, fault>>

----------------------------------------------------------------------------
(* Integer widths and the range ceiling *)

I32Max == 2147483647
U16Max == 65535
MAX == 4999

(* Bounds of the model *)
MaxRuns == 3
LongRun == 66
MaxPairs == 74

None == <<>>
Some(x) == <<x>>

----------------------------------------------------------------------------
(* The bytes *)

b_m == 109
b_d == 100
b_c == 99
b_l == 108
b_x == 120
b_v == 118
b_i == 105
B_M == 77
B_D == 68
B_C == 67
B_L == 76
B_X == 88
B_V == 86
B_I == 73

to_ascii_lowercase(c) == IF c \in 65..90 THEN c + 32 ELSE c

Ok(v) == [kind |-> "Ok", val |-> v]
InvalidDigit(c) == [kind |-> "InvalidDigit", val |-> c]
OutOfRange(v) == [kind |-> "OutOfRange", val |-> v]
Overflow == [kind |-> "Overflow", val |-> 0]

to_digit_AsOne(c) ==
    LET l == to_ascii_lowercase(c) IN
    CASE l = b_m -> Ok(1000)
      [] l = b_d -> Ok(500)
      [] l = b_c -> Ok(100)
      [] l = b_l -> Ok(50)
      [] l = b_x -> Ok(10)
      [] l = b_v -> Ok(5)
      [] OTHER -> Ok(1)

to_digit_NoFold(c) ==
    CASE c = b_m -> Ok(1000)
      [] c = b_d -> Ok(500)
      [] c = b_c -> Ok(100)
      [] c = b_l -> Ok(50)
      [] c = b_x -> Ok(10)
      [] c = b_v -> Ok(5)
      [] c = b_i -> Ok(1)
      [] OTHER -> InvalidDigit(c)

to_digit(c) ==
    LET l == to_ascii_lowercase(c) IN
    CASE l = b_m -> Ok(1000)
      [] l = b_d -> Ok(500)
      [] l = b_c -> Ok(100)
      [] l = b_l -> Ok(50)
      [] l = b_x -> Ok(10)
      [] l = b_v -> Ok(5)
      [] l = b_i -> Ok(1)
      [] OTHER -> InvalidDigit(c)

----------------------------------------------------------------------------
(* i32 arithmetic of the accumulator.  q >= 1, 1 <= v <= 1000, 1 <= a <=    *)
(* 1000.  The wrapped results are computed without leaving 32 bits.         *)

MulOverflows(q, v) == q > I32Max \div v

WrapMul(q, v) ==
    LET lo == (q % 65536) * v
        hi == (((q \div 65536) * v) + (lo \div 65536)) % 65536
    IN IF hi >= 32768 THEN ((hi - 65536) * 65536) + (lo % 65536)
                      ELSE (hi * 65536) + (lo % 65536)

I32Mul(q, v) == IF MulOverflows(q, v) THEN WrapMul(q, v) ELSE q * v

SubOverflows(a, b) == b < a - I32Max

I32Sub(a, b) ==
    IF SubOverflows(a, b) THEN (((a - I32Max) - 1) - b) + ((0 - I32Max) - 1)
                          ELSE a - b

----------------------------------------------------------------------------
(* Accumulator *)

AccumulatorNew(val) == [qty |-> 1, val |-> val]

value(self) == I32Mul(self.qty, self.val)

valueOverflows(self) == MulOverflows(self.qty, self.val)

push_NoQty(self, val) ==
    IF self.val = val
    THEN [kind |-> "Partial", n |-> 0,
          acc |-> Some([self EXCEPT !.qty = @ + 1]), fault |-> FALSE]
    ELSE IF self.val < val
    THEN [kind |-> "Complete", n |-> val - self.val,
          acc |-> None, fault |-> FALSE]
    ELSE [kind |-> "Complete", n |-> value(self),
          acc |-> Some(AccumulatorNew(val)), fault |-> valueOverflows(self)]

push(self, val) ==
    IF self.val = val
    THEN [kind |-> "Partial", n |-> 0,
          acc |-> Some([self EXCEPT !.qty = @ + 1]), fault |-> FALSE]
    ELSE IF self.val < val
    THEN [kind |-> "Complete", n |-> I32Sub(val, value(self)),
          acc |-> None,
          fault |-> valueOverflows(self) \/ SubOverflows(val, value(self))]
    ELSE [kind |-> "Complete", n |-> value(self),
          acc |-> Some(AccumulatorNew(val)), fault |-> valueOverflows(self)]

----------------------------------------------------------------------------
(* RomanUnitIterator::next.  bs is self.bytes, a is self.acc.  The result   *)
(* is the item returned and the iterator's fields after the call; fault     *)
(* says that an i32 operation of the call overflowed.                       *)

DropByte(bs) ==
    IF Head(bs).n > 1 THEN <<[Head(bs) EXCEPT !.n = @ - 1]>> \o Tail(bs)
                      ELSE Tail(bs)

RECURSIVE next(_, _)
next(bs, a) ==
    IF bs = <<>>
    THEN [item |-> IF a = None THEN None ELSE Some(Ok(value(a[1]))),
          bytes |-> bs, acc |-> None,
          fault |-> (a # None /\ valueOverflows(a[1]))]
    ELSE LET u == Head(bs).b
             d == to_digit(u)
         IN IF d.kind # "Ok"
            THEN [item |-> Some(d), bytes |-> DropByte(bs), acc |-> a,
                  fault |-> FALSE]
            ELSE IF a = None
            THEN next(DropByte(bs), Some(AccumulatorNew(d.val)))
            ELSE LET p == push(a[1], d.val) IN
                 IF p.kind = "Complete"
                 THEN [item |-> Some(Ok(p.n)), bytes |-> DropByte(bs),
                       acc |-> p.acc, fault |-> p.fault]
                 ELSE \* the other bytes of the run take the Equal arm too
                      next(Tail(bs),
                           Some([p.acc[1] EXCEPT !.qty = @ + (Head(bs).n - 1)]))

----------------------------------------------------------------------------
(* Roman *)

NonZeroU16New(k) == IF k = 0 THEN None ELSE Some(k)

RomanNew_Off(k) == IF k <= MAX + 1 THEN NonZeroU16New(k) ELSE None

RomanNew_Zero(k) == IF k <= MAX THEN Some(k) ELSE None

RomanNew(k) == IF k <= MAX THEN NonZeroU16New(k) ELSE None

RomanValue(r) == r

checked_add(r, a) ==
    IF r > U16Max - a \/ r < 0 - a THEN None ELSE Some(r + a)

----------------------------------------------------------------------------
(* The ladder *)

VALUES_NoD ==
    << [upper |-> <<B_M>>,      lower |-> <<b_m>>,      value |-> 1000],
       [upper |-> <<B_C, B_M>>, lower |-> <<b_c, b_m>>, value |-> 900],
       [upper |-> <<B_C, B_D>>, lower |-> <<b_c, b_d>>, value |-> 400],
       [upper |-> <<B_C>>,      lower |-> <<b_c>>,      value |-> 100],
       [upper |-> <<B_X, B_C>>, lower |-> <<b_x, b_c>>, value |-> 90],
       [upper |-> <<B_L>>,      lower |-> <<b_l>>,      value |-> 50],
       [upper |-> <<B_X, B_L>>, lower |-> <<b_x, b_l>>, value |-> 40],
       [upper |-> <<B_X>>,      lower |-> <<b_x>>,      value |-> 10],
       [upper |-> <<B_I, B_X>>, lower |-> <<b_i, b_x>>, value |-> 9],
       [upper |-> <<B_V>>,      lower |-> <<b_v>>,      value |-> 5],
       [upper |-> <<B_I, B_V>>, lower |-> <<b_i, b_v>>, value |-> 4],
       [upper |-> <<B_I>>,      lower |-> <<b_i>>,      value |-> 1] >>

VALUES_No4 ==
    << [upper |-> <<B_M>>,      lower |-> <<b_m>>,      value |-> 1000],
       [upper |-> <<B_C, B_M>>, lower |-> <<b_c, b_m>>, value |-> 900],
       [upper |-> <<B_D>>,      lower |-> <<b_d>>,      value |-> 500],
       [upper |-> <<B_C, B_D>>, lower |-> <<b_c, b_d>>, value |-> 400],
       [upper |-> <<B_C>>,      lower |-> <<b_c>>,      value |-> 100],
       [upper |-> <<B_X, B_C>>, lower |-> <<b_x, b_c>>, value |-> 90],
       [upper |-> <<B_L>>,      lower |-> <<b_l>>,      value |-> 50],
       [upper |-> <<B_X, B_L>>, lower |-> <<b_x, b_l>>, value |-> 40],
       [upper |-> <<B_X>>,      lower |-> <<b_x>>,      value |-> 10],
       [upper |-> <<B_I, B_X>>, lower |-> <<b_i, b_x>>, value |-> 9],
       [upper |-> <<B_V>>,      lower |-> <<b_v>>,      value |-> 5],
       [upper |-> <<B_I>>,      lower |-> <<b_i>>,      value |-> 1] >>

VALUES ==
    << [upper |-> <<B_M>>,      lower |-> <<b_m>>,      value |-> 1000],
       [upper |-> <<B_C, B_M>>, lower |-> <<b_c, b_m>>, value |-> 900],
       [upper |-> <<B_D>>,      lower |-> <<b_d>>,      value |-> 500],
       [upper |-> <<B_C, B_D>>, lower |-> <<b_c, b_d>>, value |-> 400],
       [upper |-> <<B_C>>,      lower |-> <<b_c>>,      value |-> 100],
       [upper |-> <<B_X, B_C>>, lower |-> <<b_x, b_c>>, value |-> 90],
       [upper |-> <<B_L>>,      lower |-> <<b_l>>,      value |-> 50],
       [upper |-> <<B_X, B_L>>, lower |-> <<b_x, b_l>>, value |-> 40],
       [upper |-> <<B_X>>,      lower |-> <<b_x>>,      value |-> 10],
       [upper |-> <<B_I, B_X>>, lower |-> <<b_i, b_x>>, value |-> 9],
       [upper |-> <<B_V>>,      lower |-> <<b_v>>,      value |-> 5],
       [upper |-> <<B_I, B_V>>, lower |-> <<b_i, b_v>>, value |-> 4],
       [upper |-> <<B_I>>,      lower |-> <<b_i>>,      value |-> 1] >>

Style == {"Lower", "Upper"}

----------------------------------------------------------------------------
(* The inputs *)

Run(b, k) == [b |-> b, n |-> k]

SeqsUpTo(S, k) == UNION {[1..m -> S] : m \in 0..k}

\* single bytes: the seven digits, two lowercase digits, one byte that is
\* no digit ('A')
SingleRuns == {Run(b, 1) : b \in {B_M, B_D, B_C, B_L, B_X, B_V, B_I, b_i, b_x, 65}}

\* repeated digits, among them runs worth as much as, and more than, the
\* next larger digit, and a run of M worth more than u16 holds
RepeatedRuns ==
    {Run(B_I, k) : k \in {2, 4, 5, 10, 11}}
        \cup {Run(B_X, 4), Run(B_M, 5), Run(B_M, LongRun)}

RunSet == SingleRuns \cup RepeatedRuns

\* k copies of a two-byte pair after a prefix
Pairs(prefix, pair, k) ==
    prefix \o [i \in 1..(2 * k) |-> Run(pair[((i - 1) % 2) + 1], 1)]

PairInputs ==
    {Pairs(prefix, pair, k) :
        prefix \in {<<>>, <<Run(B_M, 37)>>},
        pair \in {<<B_C, B_M>>, <<B_C, B_D>>},
        k \in 1..MaxPairs}

Inputs == SeqsUpTo(RunSet, MaxRuns) \cup PairInputs

\* runs long enough for qty * val to leave i32: the least count of M whose
\* product passes 2^31 - 1, the least whose product passes 2^32, and the same
\* for D, which a larger digit can follow
HugeRuns ==
    {Run(B_M, (I32Max \div 1000) + 1), Run(B_M, (I32Max \div 500) + 1),
     Run(B_D, (I32Max \div 500) + 1)}

WideInputs ==
    SeqsUpTo(HugeRuns \cup {Run(b, 1) : b \in {B_M, B_D, B_I, 65}}, 3)

\* the arguments of Roman::new: every u16
NewArgs == 0..U16Max

----------------------------------------------------------------------------
(* The state machine.  op = "format": Roman::new(n), then format(style)    *)
(* written to out, then out.parse::<Roman>().  op = "parse":               *)
(* input.parse::<Roman>().                                                 *)

Pending == [kind |-> "Pending", val |-> 0]
Absent == [kind |-> "None", val |-> 0]

InitWith(strings) ==
    /\ op \in {"format", "parse"}
    /\ pc = IF op = "format" THEN "new" ELSE "parse"
    /\ n \in IF op = "format" THEN NewArgs ELSE {0}
    /\ style \in IF op = "format" THEN Style ELSE {"Upper"}
    /\ input \in IF op = "format" THEN {<<>>} ELSE strings
    /\ bytes = input
    /\ made = None
    /\ current = 0
    /\ idx = 1
    /\ out = <<>>
    /\ acc = None
    /\ sum = 0
    /\ units = <<>>
    /\ result = Pending
    /\ fault = "none"

Init == InitWith(Inputs)

InitWide == InitWith(Inputs \cup WideInputs)

\* Roman::new(n) and, on Some, Roman::format(style): the formatter starts
NewRoman ==
    /\ pc = "new"
    /\ made' = RomanNew(n)
    /\ IF made' = None
       THEN /\ pc' = "done"
            /\ result' = Absent
            /\ current' = current
       ELSE /\ pc' = "fmt"
            /\ result' = result
            /\ current' = RomanValue(made'[1])
    /\ UNCHANGED <<op, n, style, idx, out, input, bytes, acc, sum, units, fault>>

\* one pass of `while current >= entry.value`
FmtWrite ==
    /\ pc = "fmt"
    /\ idx <= Len(VALUES)
    /\ current >= VALUES[idx].value
    /\ out' = out \o (IF style = "Lower" THEN VALUES[idx].lower
                                         ELSE VALUES[idx].upper)
    /\ current' = current - VALUES[idx].value
    /\ UNCHANGED <<pc, op, n, style, made, idx, input, bytes, acc, sum,
                   units, result, fault>>

\* the while loop ends: the for loop takes the next entry
FmtNextEntry ==
    /\ pc = "fmt"
    /\ idx <= Len(VALUES)
    /\ current < VALUES[idx].value
    /\ idx' = idx + 1
    /\ UNCHANGED <<pc, op, n, style, made, current, out, input, bytes, acc,
                   sum, units, result, fault>>

\* the for loop ends: Ok(()); the string written is parsed
FmtDone ==
    /\ pc = "fmt"
    /\ idx > Len(VALUES)
    /\ pc' = "parse"
    /\ input' = [i \in 1..Len(out) |-> Run(out[i], 1)]
    /\ bytes' = input'
    /\ UNCHANGED <<op, n, style, made, current, idx, out, acc, sum, units,
                   result, fault>>

\* One iteration of try_fold in Roman::from_str: the iterator's next(), then
\* the closure |acc, r| r?.checked_add(acc).ok_or(Error::Overflow).  wrapped
\* says whether an i32 operation of next() overflowed and wrapped.

\* the iterator yields Ok(r) and r.checked_add(acc) is Some
FoldUnitOn(wrapped) ==
    /\ pc = "parse"
    /\ LET it == next(bytes, acc) IN
        /\ it.fault = wrapped
        /\ it.item # None
        /\ it.item[1].kind = "Ok"
        /\ checked_add(it.item[1].val, sum) # None
        /\ sum' = checked_add(it.item[1].val, sum)[1]
        /\ units' = Append(units, it.item[1].val)
        /\ bytes' = it.bytes
        /\ acc' = it.acc
    /\ fault' = IF wrapped THEN "wrapped" ELSE fault
    /\ UNCHANGED <<pc, op, n, style, made, current, idx, out, input, result>>

\* the iterator yields Ok(r) and r.checked_add(acc) is None
FoldOverflowOn(wrapped) ==
    /\ pc = "parse"
    /\ LET it == next(bytes, acc) IN
        /\ it.fault = wrapped
        /\ it.item # None
        /\ it.item[1].kind = "Ok"
        /\ checked_add(it.item[1].val, sum) = None
        /\ units' = Append(units, it.item[1].val)
        /\ bytes' = it.bytes
        /\ acc' = it.acc
    /\ result' = Overflow
    /\ pc' = "done"
    /\ fault' = IF wrapped THEN "wrapped" ELSE fault
    /\ UNCHANGED <<op, n, style, made, current, idx, out, input, sum>>

FoldUnit == FoldUnitOn(FALSE)

FoldOverflow == FoldOverflowOn(FALSE)

\* the iterator yields Err(e) and `r?` returns it
FoldInvalidDigit ==
    /\ pc = "parse"
    /\ LET it == next(bytes, acc) IN
        /\ ~it.fault
        /\ it.item # None
        /\ it.item[1].kind # "Ok"
        /\ result' = it.item[1]
        /\ bytes' = it.bytes
        /\ acc' = it.acc
    /\ pc' = "done"
    /\ UNCHANGED <<op, n, style, made, current, idx, out, input, sum, units,
                   fault>>

\* the iterator ends: Roman::new(sum).ok_or(Error::OutOfRange(sum))
FromStrFinish ==
    /\ pc = "parse"
    /\ LET it == next(bytes, acc) IN
        /\ ~it.fault
        /\ it.item = None
        /\ bytes' = it.bytes
        /\ acc' = it.acc
    /\ result' = IF RomanNew(sum) = None THEN OutOfRange(sum)
                                         ELSE Ok(RomanValue(RomanNew(sum)[1]))
    /\ pc' = "done"
    /\ UNCHANGED <<op, n, style, made, current, idx, out, input, sum, units,
                   fault>>

\* overflow checks on: an i32 operation of next() overflows and the thread
\* panics; from_str returns nothing
FoldPanic ==
    /\ pc = "parse"
    /\ next(bytes, acc).fault
    /\ pc' = "panicked"
    /\ fault' = "panic"
    /\ UNCHANGED <<op, n, style, made, current, idx, out, input, bytes, acc,
                   sum, units, result>>

\* overflow checks off: the operation wraps and the fold goes on
FoldUnitWrapped == FoldUnitOn(TRUE)

FoldOverflowWrapped == FoldOverflowOn(TRUE)

Next ==
    \/ NewRoman
    \/ FmtWrite
    \/ FmtNextEntry
    \/ FmtDone
    \/ FoldUnit
    \/ FoldOverflow
    \/ FoldInvalidDigit
    \/ FromStrFinish

Spec == Init /\ [][Next]_vars

\* with the inputs whose runs leave i32
NextWide ==
    \/ Next
    \/ FoldPanic
    \/ FoldUnitWrapped
    \/ FoldOverflowWrapped

SpecWide == InitWide /\ [][NextWide]_vars

----------------------------------------------------------------------------
(* What the claims speak of, stated on the input string and not through    *)
(* the decoder: the numerals and their values, the string's maximal runs,   *)
(* and the units of spec 4.2 (a maximal run of one digit, or a run closed   *)
(* by one larger digit).                                                    *)

Numerals == {77, 68, 67, 76, 88, 86, 73, 109, 100, 99, 108, 120, 118, 105}

NumeralValue(b) ==
    CASE b \in {77, 109} -> 1000
      [] b \in {68, 100} -> 500
      [] b \in {67, 99} -> 100
      [] b \in {76, 108} -> 50
      [] b \in {88, 120} -> 10
      [] b \in {86, 118} -> 5
      [] b \in {73, 105} -> 1
      [] OTHER -> 0

\* the string's runs with neighbours of the same byte merged
RECURSIVE CanonRuns(_)
CanonRuns(rs) ==
    IF Len(rs) <= 1 THEN rs
    ELSE LET t == CanonRuns(Tail(rs)) IN
         IF Head(t).b = Head(rs).b
         THEN <<Run(Head(rs).b, Head(rs).n + Head(t).n)>> \o Tail(t)
         ELSE <<Head(rs)>> \o t

\* the same, by value: [v, k] is k digits of value v
RECURSIVE ValueRuns(_)
ValueRuns(rs) ==
    IF rs = <<>> THEN <<>>
    ELSE LET t == ValueRuns(Tail(rs))
             v == NumeralValue(Head(rs).b)
         IN IF t # <<>> /\ Head(t).v = v
            THEN <<[v |-> v, k |-> Head(rs).n + Head(t).k]>> \o Tail(t)
            ELSE <<[v |-> v, k |-> Head(rs).n]>> \o t

AllNumerals(rs) == \A i \in 1..Len(rs) : rs[i].b \in Numerals

HasInvalidByte(rs) == \E i \in 1..Len(rs) : rs[i].b \notin Numerals

FirstInvalidAt(rs) == CHOOSE i \in 1..Len(rs) :
    /\ rs[i].b \notin Numerals
    /\ \A j \in 1..(i - 1) : rs[j].b \in Numerals

\* the units of the value runs vr; flush says whether the last run, left in
\* the accumulator, is counted (the string ends there)
RECURSIVE UnitsOf(_, _)
UnitsOf(vr, flush) ==
    IF vr = <<>> THEN <<>>
    ELSE IF Len(vr) = 1
    THEN IF flush THEN <<vr[1].k * vr[1].v>> ELSE <<>>
    ELSE IF vr[2].v > vr[1].v
    THEN <<vr[2].v - (vr[1].k * vr[1].v)>>
            \o UnitsOf(IF vr[2].k > 1
                       THEN <<[vr[2] EXCEPT !.k = @ - 1]>> \o Tail(Tail(vr))
                       ELSE Tail(Tail(vr)), flush)
    ELSE <<vr[1].k * vr[1].v>> \o UnitsOf(Tail(vr), flush)

RECURSIVE SumSeq(_)
SumSeq(q) == IF q = <<>> THEN 0 ELSE Head(q) + SumSeq(Tail(q))

\* every partial sum of q is a u16
PartialSumsFit(q) ==
    \A i \in 1..Len(q) : SumSeq(SubSeq(q, 1, i)) \in 0..U16Max

IsPrefix(p, q) == Len(p) <= Len(q) /\ SubSeq(q, 1, Len(p)) = p

Parsed == pc = "done" /\ op = "parse"

----------------------------------------------------------------------------
\* C1: for every v in 1..=4999 and both styles, parsing the string that
\* formatting v produced yields a Roman of value v.
C1_RoundTrip ==
    (pc = "done" /\ op = "format" /\ n \in 1..MAX) => result = Ok(n)

C1_Witness ==
    /\ pc = "done" /\ op = "format" /\ n = MAX /\ style = "Lower"
    /\ out = <<b_m, b_m, b_m, b_m, b_c, b_m, b_x, b_c, b_i, b_x>>
    /\ result = Ok(MAX)

\* C2: Roman::new(n) is Some exactly when 1 <= n <= 4999 (None for 0 and for
\* n >= 5000), value() of it is n, and every Roman that new or a successful
\* parse returns holds a value in 1..=4999.
C2_NewRange ==
    /\ (op = "format" /\ pc # "new") =>
          /\ (made # None) <=> (n \in 1..MAX)
          /\ made # None => RomanValue(made[1]) = n
    /\ result.kind = "Ok" => result.val \in 1..MAX

C2_Witness ==
    op = "format" /\ pc = "done" /\ n = MAX + 1 /\ made = None /\ result = Absent

\* C3: for every v in 1..=4999 the greedy scan ends with remainder 0 and
\* writes the standard numeral of v: v div 1000 copies of M, then the
\* standard hundreds, tens and ones groups; Lower is the same in lowercase.
Group(d, one, five, ten) ==
    CASE d = 0 -> <<>>
      [] d = 1 -> <<one>>
      [] d = 2 -> <<one, one>>
      [] d = 3 -> <<one, one, one>>
      [] d = 4 -> <<one, five>>
      [] d = 5 -> <<five>>
      [] d = 6 -> <<five, one>>
      [] d = 7 -> <<five, one, one>>
      [] d = 8 -> <<five, one, one, one>>
      [] d = 9 -> <<one, ten>>

StandardUpper(v) ==
    [i \in 1..(v \div 1000) |-> 77]
        \o Group((v \div 100) % 10, 67, 68, 77)
        \o Group((v \div 10) % 10, 88, 76, 67)
        \o Group(v % 10, 73, 86, 88)

StandardNumeral(v, st) ==
    IF st = "Upper" THEN StandardUpper(v)
    ELSE [i \in 1..Len(StandardUpper(v)) |-> StandardUpper(v)[i] + 32]

C3_StandardNumeral ==
    /\ (pc = "fmt" /\ idx > Len(VALUES)) => current = 0
    /\ (op = "format" /\ pc \in {"parse", "done"} /\ made # None) =>
          /\ current = 0
          /\ out = StandardNumeral(n, style)
    /\ (op = "format" /\ pc = "done" /\ style = "Upper") =>
          /\ n = 1984 => out = <<77, 67, 77, 76, 88, 88, 88, 73, 86>>
          /\ n = 2529 => out = <<77, 77, 68, 88, 88, 73, 88>>
          /\ n = 2999 => out = <<77, 77, 67, 77, 88, 67, 73, 88>>
          /\ n = 3999 => out = <<77, 77, 77, 67, 77, 88, 67, 73, 88>>
          /\ n = 4999 => out = <<77, 77, 77, 77, 67, 77, 88, 67, 73, 88>>

C3_Witness ==
    /\ op = "format" /\ pc = "parse" /\ n = 1984 /\ style = "Upper"
    /\ current = 0
    /\ out = <<77, 67, 77, 76, 88, 88, 88, 73, 86>>

\* C4 (as claimed): a string of valid digits whose total exceeds 65535 fails
\* with Overflow, never with OutOfRange or a wrapped value or in any other
\* way: one run of 66 or more 'M', and repeated CM / CD pairs.
C4_LongInput ==
    \/ /\ Len(CanonRuns(input)) = 1
       /\ CanonRuns(input)[1].b = 77
       /\ CanonRuns(input)[1].n >= 66
    \/ \E k \in 73..(MaxPairs + 1) : input = Pairs(<<>>, <<67, 77>>, k)
    \/ \E k \in 72..(MaxPairs + 1) : input = Pairs(<<Run(77, 37)>>, <<67, 68>>, k)

C4_OverflowIsReported ==
    (op = "parse" /\ pc \notin {"parse"} /\ C4_LongInput) => result = Overflow

\* C4 on the runs and pairs the code's own test has (roman.rs:210-236): holds
C4_ShortOfI32 ==
    (Parsed /\ fault = "none" /\ C4_LongInput) => result = Overflow

\* C5 (as claimed): parse(""), parse("A") and parse("XIIA") all fail with
\* InvalidDigit.
C5_Strings ==
    {<<>>, <<Run(65, 1)>>, <<Run(88, 1), Run(73, 2), Run(65, 1)>>}

C5_AllInvalidDigit ==
    (Parsed /\ CanonRuns(input) \in C5_Strings) => result.kind = "InvalidDigit"

\* C5 (amended): parse("A") and parse("XIIA") fail with InvalidDigit carrying
\* 'A'; parse("") fails with OutOfRange(0).
C5_Amended ==
    Parsed =>
      /\ CanonRuns(input) = <<Run(65, 1)>> => result = InvalidDigit(65)
      /\ CanonRuns(input) = <<Run(88, 1), Run(73, 2), Run(65, 1)>>
            => result = InvalidDigit(65)
      /\ input = <<>> => result = OutOfRange(0)

C5_Witness ==
    Parsed /\ input = <<>> /\ units = <<>> /\ result = OutOfRange(0)

C7_AtMost15 == op = "format" => Len(out) <= 15

\* C7 (amended): the formatted numeral has at most 16 characters (4888 is
\* MMMMDCCCLXXXVIII, 16 characters).
C7_AtMost16 == op = "format" => Len(out) <= 16

C7_Witness ==
    /\ op = "format" /\ pc = "done" /\ n = 4888 /\ Len(out) = 16
    /\ out = <<77, 77, 77, 77, 68, 67, 67, 67, 76, 88, 88, 88, 86, 73, 73, 73>>

\* C8 (as claimed): parse is total: it ends with a Roman in 1..=4999 or one
\* of InvalidDigit, OutOfRange, Overflow, and no step of the decoder (the
\* product of a run, the difference of a subtractive unit, the running sum)
\* leaves the range of its integer type or aborts.
C8_Total ==
    /\ pc # "panicked"
    /\ fault = "none"
    /\ Parsed =>
          /\ result.kind \in {"Ok", "InvalidDigit", "OutOfRange", "Overflow"}
          /\ result.kind = "Ok" => result.val \in 1..MAX

\* C9: a string of valid digits that sums without overflow to a total that
\* is 0 or above 4999 fails with OutOfRange carrying that total; a total in
\* 1..=4999 parses to that total.
C9_RangeCheck ==
    (Parsed /\ AllNumerals(input)
        /\ PartialSumsFit(UnitsOf(ValueRuns(input), TRUE))) =>
       LET total == SumSeq(UnitsOf(ValueRuns(input), TRUE)) IN
       result = IF total \in 1..MAX THEN Ok(total) ELSE OutOfRange(total)

C9_Witness ==
    Parsed /\ input = <<Run(77, 5)>> /\ result = OutOfRange(5000)

\* C10 (as claimed): an input that contains a byte that is no digit fails
\* with InvalidDigit carrying the first such byte, whatever precedes it
\* (stated here for the parses in which no i32 operation overflowed and no
\* unit is negative).
C10_AlwaysInvalidDigit ==
    (Parsed /\ HasInvalidByte(input) /\ fault = "none"
        /\ \A k \in 1..Len(units) : units[k] >= 0) =>
       result = InvalidDigit(input[FirstInvalidAt(input)].b)

\* C10 (amended): an input that contains a byte that is no digit never
\* parses to a Roman or to OutOfRange, and no unit is emitted for the bytes
\* after the first such byte; it fails with InvalidDigit carrying that byte
\* if every unit completed before it was added to the sum without failure,
\* and otherwise has ended before reading it, with Overflow when the checked
\* sum of those units leaves u16.
C10_RestAfter(rs, i) ==
    IF rs[i].n > 1 THEN <<[rs[i] EXCEPT !.n = @ - 1]>> \o SubSeq(rs, i + 1, Len(rs))
                   ELSE SubSeq(rs, i + 1, Len(rs))

C10_Amended ==
    (Parsed /\ HasInvalidByte(input)) =>
       LET i == FirstInvalidAt(input)
           before == SubSeq(input, 1, i - 1)
       IN /\ result.kind \in {"InvalidDigit", "Overflow"}
          /\ result.kind = "InvalidDigit" =>
                /\ result.val = input[i].b
                /\ bytes = C10_RestAfter(input, i)
          /\ result.kind = "Overflow" =>
                /\ Len(bytes) >= Len(input) - i + 1
                /\ bytes[Len(bytes) - (Len(input) - i)] = input[i]
          \* runs whose products stay within i32
          /\ (\A k \in 1..Len(before) : before[k].n <= U16Max) =>
                LET done == UnitsOf(ValueRuns(before), FALSE) IN
                /\ IsPrefix(units, done)
                /\ IF PartialSumsFit(done)
                   THEN /\ result = InvalidDigit(input[i].b)
                        /\ units = done
                   ELSE result = Overflow

C10_Witness ==
    /\ Parsed /\ input = <<Run(77, LongRun), Run(68, 1), Run(65, 1)>>
    /\ result = Overflow /\ bytes = <<Run(65, 1)>>

====
